---------------------------- MODULE Spec2Model ----------------------------
(***************************************************************************)
(* A model of three components of agglayer-rs:                             *)
(*                                                                         *)
(*   - the epoch clock, crates/agglayer-clock/src/time.rs (TimeClock):     *)
(*     construction, spawn, the background task's tick loop and the        *)
(*     broadcast channel its events go through;                            *)
(*   - the transaction intake, crates/agglayer-node/src/rpc/mod.rs         *)
(*     (AgglayerImpl::send_tx): the registration check, the try_join! of   *)
(*     the three verification futures and the settlement;                  *)
(*   - the submission type, crates/agglayer-node/src/signed_tx.rs: the     *)
(*     proof codec (Proof::try_from_slice, Proof::as_bytes) and            *)
(*     SignedTx's deserialization, hash and signer.                        *)
(*                                                                         *)
(* They are independent programs; each has its own specification over the  *)
(* module's variables: Spec for the clock, SpecTx for send_tx (SpecTxHang  *)
(* for one invocation under fair polling), SpecCodec for the codec and     *)
(* SpecSigned for SignedTx.                                                *)
(***************************************************************************)
EXTENDS Integers, Sequences, FiniteSets, TLC

(***************************************************************************)
(* Bounds of the model.                                                    *)
(***************************************************************************)
\* Wall-clock time is counted in units of 1/Res second, so that a clock can
\* be built and spawned at a fraction of a second.
Res == 2

\* The wall clock advances up to MaxNow units after construction.
MaxNow == 8

\* Number of subscribers that may call subscribe on the ClockRef.
MaxSubs == 2

Subscribers == 1 .. MaxSubs

\* Number of send_tx invocations, which may run concurrently.
MaxReqs == 2

Requests == 1 .. MaxReqs

\* Epoch durations (NonZeroU64) a clock is constructed with.
EpochDurations == {1, 2, 5}

\* Genesis timestamps a clock is constructed with, relative to the moment of
\* construction (time 0): in the future, a fraction of a second ago, and
\* 30 seconds ago (the tests' genesis).
Geneses == {Res + 1, -1, -(30 * Res)}

(***************************************************************************)
(* The clock's state.                                                      *)
(***************************************************************************)
VARIABLES
    now,            \* Utc::now() / Instant::now(), in units of 1/Res second
    genesis,        \* TimeClock.genesis
    epoch_duration, \* TimeClock.epoch_duration
    current_block,  \* TimeClock.current_block (Arc<AtomicU64>)
    current_epoch,  \* TimeClock.current_epoch (Arc<AtomicU64>)
    pc_main,        \* position of the thread that builds and spawns the clock
    pc_run,         \* position of the background task (TimeClock::run)
    next_tick,      \* the Interval's next deadline
    rx_count,       \* number of live receivers of the broadcast channel
    buffer,         \* values the channel has stored, oldest first
    subs,           \* per subscriber: its receiver (cursor into buffer)
    received,       \* per subscriber: the results its recv calls returned
    sent,           \* the arguments of the sender.send calls made so far
    spawn_block,    \* the block stored by spawn's compute_block
    burst           \* ticks delivered since the wall clock last advanced

clockVars == <<now, genesis, epoch_duration, current_block, current_epoch,
               pc_main, pc_run, next_tick, rx_count, buffer, subs, received,
               sent, spawn_block, burst>>

(***************************************************************************)
(* The state of send_tx: one entry per invocation (the service is          *)
(* reentrant), and the telemetry counters they share.                      *)
(***************************************************************************)
VARIABLES
    tx_pc,          \* per invocation: where send_tx is
    rollup_id,      \* per invocation: tx.tx.rollup_id
    checks,         \* per invocation: the state of each future of try_join!
    invoked,        \* per invocation: the kernel functions that were run
    settle_calls,   \* per invocation: number of kernel.settle calls
    result,         \* per invocation: the RpcResult<H256> returned
    counters,       \* crate::telemetry counters
    receipt,        \* per invocation: what kernel.settle returned
    hung            \* per invocation: the awaited call that never returns

txVars == <<tx_pc, rollup_id, checks, invoked, settle_calls, result, counters,
            receipt, hung>>

(***************************************************************************)
(* The proof codec: a byte slice handed to Proof::try_from_slice, the      *)
(* result, and the bytes Proof::as_bytes gives back.                       *)
(***************************************************************************)
VARIABLES
    codec_pc,       \* how far the slice has gone through the codec
    slice,          \* the argument of Proof::try_from_slice
    decoded,        \* Result<Proof, ProofEncodingError>, or NoValue
    encoded         \* Vec<u8> returned by Proof::as_bytes

codecVars == <<codec_pc, slice, decoded, encoded>>

(***************************************************************************)
(* Two submissions side by side: as received, as deserialized, their       *)
(* hashes and the results of signer().                                     *)
(***************************************************************************)
VARIABLES
    signed_pc,      \* how far the two submissions have gone
    wire,           \* per side: the submission as received
    stx,            \* per side: the SignedTx, or the deserialization error
    digest,         \* per side: SignedTx::hash()
    signer_out      \* per side: SignedTx::signer()

signedVars == <<signed_pc, wire, stx, digest, signer_out>>

pureVars == <<codecVars, signedVars>>

vars == <<clockVars, txVars, pureVars>>

(***************************************************************************)
(* Pure helpers of the clock.                                              *)
(***************************************************************************)
\* chrono::Duration::num_seconds: whole seconds, truncated toward zero.
NumSeconds(d) == IF d >= 0 THEN d \div Res ELSE -((-d) \div Res)

Max(a, b) == IF a >= b THEN a ELSE b

\* Mutant of compute_block: the cast without the clamp at zero.
ComputeBlock_NoClamp(t, g) == NumSeconds(t - g)

\* Mutant of compute_block: the duration taken from now to genesis.
ComputeBlock_Reversed(t, g) == Max(NumSeconds(g - t), 0)

\* compute_block: max(now - genesis in whole seconds, 0) as u64.
ComputeBlock(t, g) == Max(NumSeconds(t - g), 0)

\* Mutant of compute_epoch: epochs numbered from 1.
ComputeEpoch_OneBased(b, d) == b \div d + 1

\* compute_epoch: current_block / epoch_duration.
ComputeEpoch(b, d) == b \div d

\* Event::EpochChange(epoch).
EpochChange(e) == <<"EpochChange", e>>

\* RecvError::Lagged(n).
Lagged(n) == <<"Lagged", n>>

\* The channel size the clock crate passes to broadcast::channel.  It is
\* declared at the crate root; a small size stands for it here.
BROADCAST_CHANNEL_SIZE == 2

RECURSIVE NextPowerOfTwo(_)
NextPowerOfTwo(n) == IF n <= 1 THEN 1 ELSE 2 * NextPowerOfTwo((n + 1) \div 2)

\* broadcast::channel(capacity): the ring buffer holds
\* capacity.next_power_of_two() values.
Capacity == NextPowerOfTwo(BROADCAST_CHANNEL_SIZE)

NoReceiver == [active |-> FALSE, next |-> 0, joined |-> 0]

(***************************************************************************)
(* send_tx: inputs and helpers.                                            *)
(***************************************************************************)
\* Rollup ids a submission may carry; the kernel knows the registered ones.
RollupIds == {1, 2}

RegisteredRollups == {1}

\* Transaction hashes a settlement receipt may carry.
TxHashes == {"0xaa", "0xbb"}

\* The three futures of try_join!, by the kernel function each awaits.
Checks == {"verify_signature", "verify_proof_eth_call",
           "verify_proof_zkevm_node"}

\* kernel.check_rollup_registered(rollup_id).
check_rollup_registered(id) == id \in RegisteredRollups

\* invalid_params_error(msg): ErrorObject with INVALID_PARAMS_CODE.
invalid_params_error(msg) == [kind |-> "InvalidParams", data |-> msg]

\* Mutant of internal_error: built with the invalid-params code.
internal_error_InvalidParams(msg) == [kind |-> "InvalidParams", data |-> msg]

\* internal_error(msg): ErrorObject with INTERNAL_ERROR_CODE.
internal_error(msg) == [kind |-> "Internal", data |-> msg]

\* Ok(receipt.transaction_hash).
OkResult(h) == [kind |-> "Ok", data |-> h]

NoResult == [kind |-> "None", data |-> "None"]

\* ZkevmNodeVerificationError::InvalidRollupId(rollup_id).to_string().
InvalidRollupId(id) == <<"InvalidRollupId", id>>

\* e.to_string() of the error a kernel function returned.
ErrorOf(f) == <<"Error", f>>

\* The telemetry counter the map_ok closure of each future increments.
CounterOf(f) ==
    CASE f = "verify_signature" -> "VERIFY_SIGNATURE"
      [] f = "verify_proof_eth_call" -> "EXECUTE"
      [] f = "verify_proof_zkevm_node" -> "VERIFY_ZKP"

CounterNames == {"SEND_TX", "CHECK_TX", "VERIFY_SIGNATURE", "EXECUTE",
                 "VERIFY_ZKP", "SETTLE"}

\* A variable that holds nothing yet.
NoValue == <<"None">>

\* What kernel.settle has returned: nothing yet, a receipt with its
\* transaction hash, or an error.
NoReceipt == <<>>
Receipt(h) == <<"Ok", h>>
SettleError == <<"Err">>

\* The awaited calls of send_tx, any of which may never return.
HangPoints == Checks \cup {"settle"}

TxFields ==
    /\ tx_pc = [r \in Requests |-> "idle"]
    /\ rollup_id = [r \in Requests |-> 0]
    /\ checks = [r \in Requests |-> [f \in Checks |-> "new"]]
    /\ invoked = [r \in Requests |-> {}]
    /\ settle_calls = [r \in Requests |-> 0]
    /\ result = [r \in Requests |-> NoResult]
    /\ counters = [c \in CounterNames |-> 0]
    /\ receipt = [r \in Requests |-> NoReceipt]

\* Every collaborator call returns.
TxInit ==
    /\ TxFields
    /\ hung = [r \in Requests |-> "none"]

\* The first invocation may have one collaborator call that never returns.
TxInitHang ==
    /\ TxFields
    /\ hung \in {h \in [Requests -> HangPoints \cup {"none"}] :
                    \A r \in Requests : r > 1 => h[r] = "none"}

\* No slice has been handed to the codec.
CodecInit ==
    /\ codec_pc = "idle"
    /\ slice = <<>>
    /\ decoded = NoValue
    /\ encoded = <<>>

\* No submission has been received.
SignedInit ==
    /\ signed_pc = "idle"
    /\ wire = NoValue
    /\ stx = NoValue
    /\ digest = NoValue
    /\ signer_out = NoValue

(***************************************************************************)
(* Initial state: nothing constructed yet.  The atomics start at 0         *)
(* (AtomicU64::new(0)).                                                    *)
(***************************************************************************)
ClockInit ==
    /\ now = 0
    /\ genesis = 0
    /\ epoch_duration = 1
    /\ current_block = 0
    /\ current_epoch = 0
    /\ pc_main = "start"
    /\ pc_run = "none"
    /\ next_tick = 0
    /\ rx_count = 0
    /\ buffer = <<>>
    /\ subs = [s \in Subscribers |-> NoReceiver]
    /\ received = [s \in Subscribers |-> <<>>]
    /\ sent = <<>>
    /\ spawn_block = 0
    /\ burst = 0

Init == ClockInit /\ TxInit /\ CodecInit /\ SignedInit

(***************************************************************************)
(* The wall clock.                                                         *)
(***************************************************************************)
AdvanceTime ==
    /\ pc_main # "start"
    /\ now < MaxNow
    /\ now' = now + 1
    /\ burst' = 0
    /\ UNCHANGED <<genesis, epoch_duration, current_block, current_epoch,
                   pc_main, pc_run, next_tick, rx_count, buffer, subs,
                   received, sent, spawn_block>>
    /\ UNCHANGED <<txVars, pureVars>>

(***************************************************************************)
(* TimeClock::new(genesis, epoch_duration).                                *)
(***************************************************************************)
New(g, d) ==
    /\ pc_main = "start"
    /\ genesis' = g
    /\ epoch_duration' = d
    /\ current_block' = ComputeBlock(now, g)
    /\ current_epoch' = ComputeEpoch(current_block', d)
    /\ pc_main' = "created"
    /\ UNCHANGED <<now, pc_run, next_tick, rx_count, buffer, subs, received,
                   sent, spawn_block, burst>>
    /\ UNCHANGED <<txVars, pureVars>>

(***************************************************************************)
(* TimeClock::spawn, one action per store a holder of block_ref/epoch_ref  *)
(* can observe.                                                            *)
(***************************************************************************)
\* broadcast::channel(..) (one receiver, _receiver), then compute_block.
SpawnComputeBlock ==
    /\ pc_main = "created"
    /\ rx_count' = 1
    /\ current_block' = ComputeBlock(now, genesis)
    /\ spawn_block' = current_block'
    /\ pc_main' = "spawn_epoch"
    /\ UNCHANGED <<now, genesis, epoch_duration, current_epoch, pc_run,
                   next_tick, buffer, subs, received, sent, burst>>
    /\ UNCHANGED <<txVars, pureVars>>

\* compute_epoch.
SpawnComputeEpoch ==
    /\ pc_main = "spawn_epoch"
    /\ current_epoch' = ComputeEpoch(current_block, epoch_duration)
    /\ pc_main' = "spawn_task"
    /\ UNCHANGED <<now, genesis, epoch_duration, current_block, pc_run,
                   next_tick, rx_count, buffer, subs, received, sent,
                   spawn_block, burst>>
    /\ UNCHANGED <<txVars, pureVars>>

\* tokio::spawn(async move { self.run(sender).await }).
SpawnTask ==
    /\ pc_main = "spawn_task"
    /\ pc_run' = "ready"
    /\ pc_main' = "spawn_ret"
    /\ UNCHANGED <<now, genesis, epoch_duration, current_block, current_epoch,
                   next_tick, rx_count, buffer, subs, received, sent,
                   spawn_block, burst>>
    /\ UNCHANGED <<txVars, pureVars>>

\* Ok(clock_ref): spawn returns and _receiver is dropped.
SpawnReturn ==
    /\ pc_main = "spawn_ret"
    /\ rx_count' = rx_count - 1
    /\ pc_main' = "running"
    /\ UNCHANGED <<now, genesis, epoch_duration, current_block, current_epoch,
                   pc_run, next_tick, buffer, subs, received, sent,
                   spawn_block, burst>>
    /\ UNCHANGED <<txVars, pureVars>>

(***************************************************************************)
(* TimeClock::run.                                                         *)
(***************************************************************************)
\* interval_at(Instant::now(), Duration::from_secs(1)): the first deadline
\* is the moment the task starts.
RunStart ==
    /\ pc_run = "ready"
    /\ next_tick' = now
    /\ pc_run' = "wait"
    /\ UNCHANGED <<now, genesis, epoch_duration, current_block, current_epoch,
                   pc_main, rx_count, buffer, subs, received, sent,
                   spawn_block, burst>>
    /\ UNCHANGED <<txVars, pureVars>>

\* Mutant of the tick: the block is recomputed from the wall clock instead
\* of incremented.
TickFetchAdd_FromWallClock ==
    /\ pc_run = "wait"
    /\ next_tick <= now
    /\ next_tick' = next_tick + Res
    /\ current_block' = ComputeBlock(now, genesis)
    /\ pc_run' = IF current_block' % epoch_duration = 0 THEN "epoch" ELSE "wait"
    /\ burst' = burst + 1
    /\ UNCHANGED <<now, genesis, epoch_duration, current_epoch, pc_main,
                   rx_count, buffer, subs, received, sent, spawn_block>>
    /\ UNCHANGED <<txVars, pureVars>>

\* Mutant of the tick: the boundary test is left out, so that every tick
\* recomputes the epoch and sends an event.
TickFetchAdd_EveryTick ==
    /\ pc_run = "wait"
    /\ next_tick <= now
    /\ next_tick' = next_tick + Res
    /\ current_block' = current_block + 1
    /\ pc_run' = "epoch"
    /\ burst' = burst + 1
    /\ UNCHANGED <<now, genesis, epoch_duration, current_epoch, pc_main,
                   rx_count, buffer, subs, received, sent, spawn_block>>
    /\ UNCHANGED <<txVars, pureVars>>

\* interval.tick().await completes once its deadline has passed (however
\* late; a missed deadline is followed by the next one a period after it),
\* then fetch_add(1) and the load that tests the boundary.
TickFetchAdd ==
    /\ pc_run = "wait"
    /\ next_tick <= now
    /\ next_tick' = next_tick + Res
    /\ current_block' = current_block + 1
    /\ pc_run' = IF current_block' % epoch_duration = 0 THEN "epoch" ELSE "wait"
    /\ burst' = burst + 1
    /\ UNCHANGED <<now, genesis, epoch_duration, current_epoch, pc_main,
                   rx_count, buffer, subs, received, sent, spawn_block>>
    /\ UNCHANGED <<txVars, pureVars>>

\* Mutant of the boundary tick: the epoch is not recomputed.
TickComputeEpoch_NoStore ==
    /\ pc_run = "epoch"
    /\ pc_run' = "send"
    /\ UNCHANGED <<now, genesis, epoch_duration, current_block, current_epoch,
                   pc_main, next_tick, rx_count, buffer, subs, received, sent,
                   spawn_block, burst>>
    /\ UNCHANGED <<txVars, pureVars>>

\* compute_epoch on a boundary.
TickComputeEpoch ==
    /\ pc_run = "epoch"
    /\ current_epoch' = ComputeEpoch(current_block, epoch_duration)
    /\ pc_run' = "send"
    /\ UNCHANGED <<now, genesis, epoch_duration, current_block, pc_main,
                   next_tick, rx_count, buffer, subs, received, sent,
                   spawn_block, burst>>
    /\ UNCHANGED <<txVars, pureVars>>

\* Mutant of the send: the event carries the block, not the epoch.
TickSend_Block ==
    /\ pc_run = "send"
    /\ sent' = Append(sent, EpochChange(current_block))
    /\ buffer' = IF rx_count > 0
                 THEN Append(buffer, EpochChange(current_block))
                 ELSE buffer
    /\ pc_run' = "wait"
    /\ UNCHANGED <<now, genesis, epoch_duration, current_block, current_epoch,
                   pc_main, next_tick, rx_count, subs, received, spawn_block,
                   burst>>
    /\ UNCHANGED <<txVars, pureVars>>

\* Mutant of the send: the result is unwrapped, so that the error of a send
\* without receiver ends the task.
TickSend_Unwrap ==
    /\ pc_run = "send"
    /\ sent' = Append(sent, EpochChange(current_epoch))
    /\ buffer' = IF rx_count > 0
                 THEN Append(buffer, EpochChange(current_epoch))
                 ELSE buffer
    /\ pc_run' = IF rx_count > 0 THEN "wait" ELSE "panicked"
    /\ UNCHANGED <<now, genesis, epoch_duration, current_block, current_epoch,
                   pc_main, next_tick, rx_count, subs, received, spawn_block,
                   burst>>
    /\ UNCHANGED <<txVars, pureVars>>

\* Mutant of the send: a sender that waits for room, as that of a bounded
\* queue does, while a receiver has Capacity values unread.
TickSend_Blocking ==
    /\ pc_run = "send"
    /\ \A s \in Subscribers :
           subs[s].active => Len(buffer) - subs[s].next < Capacity
    /\ sent' = Append(sent, EpochChange(current_epoch))
    /\ buffer' = IF rx_count > 0
                 THEN Append(buffer, EpochChange(current_epoch))
                 ELSE buffer
    /\ pc_run' = "wait"
    /\ UNCHANGED <<now, genesis, epoch_duration, current_block, current_epoch,
                   pc_main, next_tick, rx_count, subs, received, spawn_block,
                   burst>>
    /\ UNCHANGED <<txVars, pureVars>>

\* _ = sender.send(Event::EpochChange(current_epoch.load())): the value is
\* stored only when a receiver exists; the error of a send without receiver
\* is discarded.
TickSend ==
    /\ pc_run = "send"
    /\ sent' = Append(sent, EpochChange(current_epoch))
    /\ buffer' = IF rx_count > 0
                 THEN Append(buffer, EpochChange(current_epoch))
                 ELSE buffer
    /\ pc_run' = "wait"
    /\ UNCHANGED <<now, genesis, epoch_duration, current_block, current_epoch,
                   pc_main, next_tick, rx_count, subs, received, spawn_block,
                   burst>>
    /\ UNCHANGED <<txVars, pureVars>>

(***************************************************************************)
(* The subscribers of the ClockRef that spawn returned.                    *)
(***************************************************************************)
\* clock_ref.subscribe(): a new receiver, positioned at the channel's tail.
\* Subscribers are interchangeable: they are numbered in the order in which
\* they subscribe.
Subscribe(s) ==
    /\ pc_main = "running"
    /\ ~subs[s].active
    /\ \A r \in Subscribers : r < s => subs[r].active
    /\ subs' = [subs EXCEPT ![s] = [active |-> TRUE, next |-> Len(buffer),
                                    joined |-> Len(sent)]]
    /\ rx_count' = rx_count + 1
    /\ UNCHANGED <<now, genesis, epoch_duration, current_block, current_epoch,
                   pc_main, pc_run, next_tick, buffer, received, sent,
                   spawn_block, burst>>
    /\ UNCHANGED <<txVars, pureVars>>

\* recv().await with a value waiting: the next value, or Lagged(n) when the
\* receiver fell more than Capacity values behind (its cursor then moves to
\* the oldest value still held).
Recv(s) ==
    /\ subs[s].active
    /\ subs[s].next < Len(buffer)
    /\ IF subs[s].next < Len(buffer) - Capacity
       THEN /\ received' = [received EXCEPT ![s] =
                   Append(@, Lagged(Len(buffer) - Capacity - subs[s].next))]
            /\ subs' = [subs EXCEPT ![s].next = Len(buffer) - Capacity]
       ELSE /\ received' = [received EXCEPT ![s] =
                   Append(@, buffer[subs[s].next + 1])]
            /\ subs' = [subs EXCEPT ![s].next = @ + 1]
    /\ UNCHANGED <<now, genesis, epoch_duration, current_block, current_epoch,
                   pc_main, pc_run, next_tick, rx_count, buffer, sent,
                   spawn_block, burst>>
    /\ UNCHANGED <<txVars, pureVars>>

Next ==
    \/ AdvanceTime
    \/ \E g \in Geneses, d \in EpochDurations : New(g, d)
    \/ SpawnComputeBlock
    \/ SpawnComputeEpoch
    \/ SpawnTask
    \/ SpawnReturn
    \/ RunStart
    \/ TickFetchAdd
    \/ TickComputeEpoch
    \/ TickSend
    \/ \E s \in Subscribers : Subscribe(s)
    \/ \E s \in Subscribers : Recv(s)

Spec == Init /\ [][Next]_vars

(***************************************************************************)
(* AgglayerImpl::send_tx.                                                  *)
(***************************************************************************)
\* Mutant of send_tx: the registration is not checked.
SendTxBegin_NoRegistrationCheck(r, id) ==
    /\ tx_pc[r] = "idle"
    /\ \A q \in Requests : q < r => tx_pc[q] # "idle"
    /\ rollup_id' = [rollup_id EXCEPT ![r] = id]
    /\ tx_pc' = [tx_pc EXCEPT ![r] = "join"]
    /\ counters' = [counters EXCEPT !["SEND_TX"] = @ + 1,
                                    !["CHECK_TX"] = @ + 1]
    /\ UNCHANGED <<checks, invoked, settle_calls, result>>
    /\ UNCHANGED <<receipt, hung, clockVars, pureVars>>

\* send_tx is called with a submission for rollup id: SEND_TX is counted
\* and the registration is checked.  An unregistered rollup returns the
\* invalid-params error at once; otherwise CHECK_TX is counted and the three
\* futures are handed to try_join!.
SendTxBegin(r, id) ==
    /\ tx_pc[r] = "idle"
    /\ \A q \in Requests : q < r => tx_pc[q] # "idle"
    /\ rollup_id' = [rollup_id EXCEPT ![r] = id]
    /\ IF ~check_rollup_registered(id)
       THEN /\ result' = [result EXCEPT ![r] =
                              invalid_params_error(InvalidRollupId(id))]
            /\ tx_pc' = [tx_pc EXCEPT ![r] = "done"]
            /\ counters' = [counters EXCEPT !["SEND_TX"] = @ + 1]
       ELSE /\ result' = result
            /\ tx_pc' = [tx_pc EXCEPT ![r] = "join"]
            /\ counters' = [counters EXCEPT !["SEND_TX"] = @ + 1,
                                            !["CHECK_TX"] = @ + 1]
    /\ UNCHANGED <<checks, invoked, settle_calls>>
    /\ UNCHANGED <<receipt, hung, clockVars, pureVars>>

\* Mutant of the join: a future that stays pending is given up after a
\* timeout and send_tx returns an error.
PollPending_Timeout(r, f) ==
    /\ tx_pc[r] = "join"
    /\ checks[r][f] \in {"new", "pending"}
    /\ checks' = [checks EXCEPT ![r][f] = "pending"]
    /\ invoked' = [invoked EXCEPT ![r] = @ \cup {f}]
    /\ IF checks[r][f] = "pending"
       THEN /\ result' = [result EXCEPT ![r] = internal_error("timeout")]
            /\ tx_pc' = [tx_pc EXCEPT ![r] = "done"]
       ELSE UNCHANGED <<tx_pc, result>>
    /\ UNCHANGED <<rollup_id, settle_calls, counters>>
    /\ UNCHANGED <<receipt, hung, clockVars, pureVars>>

\* try_join! polls future f, which does not complete yet: the kernel
\* function has been called and is in flight.
PollPending(r, f) ==
    /\ tx_pc[r] = "join"
    /\ checks[r][f] \in {"new", "pending"}
    /\ checks' = [checks EXCEPT ![r][f] = "pending"]
    /\ invoked' = [invoked EXCEPT ![r] = @ \cup {f}]
    /\ UNCHANGED <<tx_pc, rollup_id, settle_calls, result, counters>>
    /\ UNCHANGED <<receipt, hung, clockVars, pureVars>>

\* try_join! polls future f, which completes with Ok: its map_ok closure
\* counts it.  When it is the last of the three, try_join! returns Ok and
\* send_tx goes on to the settlement.
PollOk(r, f) ==
    /\ tx_pc[r] = "join"
    /\ checks[r][f] \in {"new", "pending"}
    /\ hung[r] # f
    /\ checks' = [checks EXCEPT ![r][f] = "ok"]
    /\ invoked' = [invoked EXCEPT ![r] = @ \cup {f}]
    /\ counters' = [counters EXCEPT ![CounterOf(f)] = @ + 1]
    /\ tx_pc' = IF \A h \in Checks : checks'[r][h] = "ok"
                THEN [tx_pc EXCEPT ![r] = "settle"]
                ELSE tx_pc
    /\ UNCHANGED <<rollup_id, settle_calls, result>>
    /\ UNCHANGED <<receipt, hung, clockVars, pureVars>>

\* Mutant of try_join!(..)?: the error of the join is dropped and send_tx
\* goes on to the settlement.
PollErr_Ignored(r, f) ==
    /\ tx_pc[r] = "join"
    /\ checks[r][f] \in {"new", "pending"}
    /\ hung[r] # f
    /\ checks' = [checks EXCEPT ![r] =
                     [h \in Checks |->
                         IF h = f THEN "err"
                         ELSE IF checks[r][h] \in {"new", "pending"}
                              THEN "dropped"
                              ELSE checks[r][h]]]
    /\ invoked' = [invoked EXCEPT ![r] = @ \cup {f}]
    /\ tx_pc' = [tx_pc EXCEPT ![r] = "settle"]
    /\ UNCHANGED <<rollup_id, settle_calls, result, counters>>
    /\ UNCHANGED <<receipt, hung, clockVars, pureVars>>

\* Mutant of try_join!: a plain join, which records the error and keeps
\* waiting for the futures still in flight.
PollErr_NoShortCircuit(r, f) ==
    /\ tx_pc[r] = "join"
    /\ checks[r][f] \in {"new", "pending"}
    /\ hung[r] # f
    /\ checks' = [checks EXCEPT ![r][f] = "err"]
    /\ invoked' = [invoked EXCEPT ![r] = @ \cup {f}]
    /\ result' = [result EXCEPT ![r] = invalid_params_error(ErrorOf(f))]
    /\ tx_pc' = IF \A h \in Checks : checks'[r][h] \notin {"new", "pending"}
                THEN [tx_pc EXCEPT ![r] = "done"]
                ELSE tx_pc
    /\ UNCHANGED <<rollup_id, settle_calls, counters>>
    /\ UNCHANGED <<receipt, hung, clockVars, pureVars>>

\* try_join! polls future f, which completes with Err: its map_err closure
\* makes the invalid-params error, try_join! returns it at once and `?`
\* returns it from send_tx; the futures not yet complete are dropped.
PollErr(r, f) ==
    /\ tx_pc[r] = "join"
    /\ checks[r][f] \in {"new", "pending"}
    /\ hung[r] # f
    /\ checks' = [checks EXCEPT ![r] =
                     [h \in Checks |->
                         IF h = f THEN "err"
                         ELSE IF checks[r][h] \in {"new", "pending"}
                              THEN "dropped"
                              ELSE checks[r][h]]]
    /\ invoked' = [invoked EXCEPT ![r] = @ \cup {f}]
    /\ result' = [result EXCEPT ![r] = invalid_params_error(ErrorOf(f))]
    /\ tx_pc' = [tx_pc EXCEPT ![r] = "done"]
    /\ UNCHANGED <<rollup_id, settle_calls, counters>>
    /\ UNCHANGED <<receipt, hung, clockVars, pureVars>>

\* self.kernel.settle(&tx) is called.
SettleCall(r) ==
    /\ tx_pc[r] = "settle"
    /\ settle_calls' = [settle_calls EXCEPT ![r] = @ + 1]
    /\ tx_pc' = [tx_pc EXCEPT ![r] = "settling"]
    /\ UNCHANGED <<rollup_id, checks, invoked, result, counters>>
    /\ UNCHANGED <<receipt, hung, clockVars, pureVars>>

\* settle returns a receipt: SETTLE is counted and send_tx returns
\* receipt.transaction_hash.
SettleOk(r, h) ==
    /\ tx_pc[r] = "settling"
    /\ hung[r] # "settle"
    /\ receipt' = [receipt EXCEPT ![r] = Receipt(h)]
    /\ counters' = [counters EXCEPT !["SETTLE"] = @ + 1]
    /\ result' = [result EXCEPT ![r] = OkResult(receipt'[r][2])]
    /\ tx_pc' = [tx_pc EXCEPT ![r] = "done"]
    /\ UNCHANGED <<rollup_id, checks, invoked, settle_calls>>
    /\ UNCHANGED <<hung, clockVars, pureVars>>

\* Mutant of the settlement's map_err(..)?: the error is swallowed and the
\* default hash is returned as a success.
SettleErr_Default(r) ==
    /\ tx_pc[r] = "settling"
    /\ hung[r] # "settle"
    /\ receipt' = [receipt EXCEPT ![r] = SettleError]
    /\ result' = [result EXCEPT ![r] = OkResult("0x00")]
    /\ tx_pc' = [tx_pc EXCEPT ![r] = "done"]
    /\ UNCHANGED <<rollup_id, checks, invoked, settle_calls, counters>>
    /\ UNCHANGED <<hung, clockVars, pureVars>>

\* settle returns an error: send_tx returns the internal error.
SettleErr(r) ==
    /\ tx_pc[r] = "settling"
    /\ hung[r] # "settle"
    /\ receipt' = [receipt EXCEPT ![r] = SettleError]
    /\ result' = [result EXCEPT ![r] = internal_error(ErrorOf("settle"))]
    /\ tx_pc' = [tx_pc EXCEPT ![r] = "done"]
    /\ UNCHANGED <<rollup_id, checks, invoked, settle_calls, counters>>
    /\ UNCHANGED <<hung, clockVars, pureVars>>

NextTx ==
    \/ \E r \in Requests, id \in RollupIds : SendTxBegin(r, id)
    \/ \E r \in Requests, f \in Checks : PollPending(r, f)
    \/ \E r \in Requests, f \in Checks : PollOk(r, f)
    \/ \E r \in Requests, f \in Checks : PollErr(r, f)
    \/ \E r \in Requests : SettleCall(r)
    \/ \E r \in Requests, h \in TxHashes : SettleOk(r, h)
    \/ \E r \in Requests : SettleErr(r)

SpecTx == Init /\ [][NextTx]_vars

(***************************************************************************)
(* One invocation of send_tx, of which one awaited call may never return.  *)
(* The runtime keeps polling the task: a future that can complete does     *)
(* complete, and a step send_tx can take is taken.                         *)
(***************************************************************************)
InitHang == ClockInit /\ TxInitHang /\ CodecInit /\ SignedInit

NextTxHang ==
    \/ \E id \in RollupIds : SendTxBegin(1, id)
    \/ \E f \in Checks : PollPending(1, f)
    \/ \E f \in Checks : PollOk(1, f)
    \/ \E f \in Checks : PollErr(1, f)
    \/ SettleCall(1)
    \/ \E h \in TxHashes : SettleOk(1, h)
    \/ SettleErr(1)

FairTx ==
    /\ \A f \in Checks : WF_vars(PollOk(1, f) \/ PollErr(1, f))
    /\ WF_vars(SettleCall(1))
    /\ WF_vars((\E h \in TxHashes : SettleOk(1, h)) \/ SettleErr(1))

SpecTxHang == InitHang /\ [][NextTxHang]_vars /\ FairTx

(***************************************************************************)
(* The proof codec (signed_tx.rs).                                         *)
(***************************************************************************)
HASH_LENGTH == 32

PROOF_LENGTH == 24

\* Slice lengths tried around HASH_LENGTH * PROOF_LENGTH, and the byte
\* patterns the slices are filled with.
MaxDelta == 2

MaxSeed == 7

Lengths ==
    {0, HASH_LENGTH, 2 * HASH_LENGTH * PROOF_LENGTH}
        \cup ((HASH_LENGTH * PROOF_LENGTH - MaxDelta) ..
              (HASH_LENGTH * PROOF_LENGTH + MaxDelta))

Seeds == 0 .. MaxSeed

\* A slice of len bytes; its 32-byte chunks differ from one another.
BytesOf(seed, len) ==
    SubSeq([i \in 1 .. len |-> (seed * 37 + i * (seed + 1)) % 256], 1, len)

InvalidLength(expected, got) ==
    [error |-> "InvalidLength", expected |-> expected, got |-> got]

InvalidHash(index) == [error |-> "InvalidHash", index |-> index]

\* slice.chunks_exact(n): the whole chunks of n bytes, in order; a shorter
\* rest is left out.
ChunksExact(sl, n) ==
    [i \in 1 .. (Len(sl) \div n) |-> SubSeq(sl, (i - 1) * n + 1, i * n)]

ZeroHash == [i \in 1 .. HASH_LENGTH |-> 0]

\* Mutant of the length test: slices longer than expected are let through.
TryFromSlice_AtLeast(sl) ==
    IF Len(sl) < HASH_LENGTH * PROOF_LENGTH
    THEN <<"Err", InvalidLength(HASH_LENGTH * PROOF_LENGTH, Len(sl))>>
    ELSE LET chunks == ChunksExact(sl, HASH_LENGTH)
             bad == {i \in 1 .. Len(chunks) : Len(chunks[i]) # HASH_LENGTH}
         IN  IF Len(chunks) > PROOF_LENGTH
             THEN <<"Panic">>
             ELSE IF bad # {}
             THEN <<"Err", InvalidHash(
                      (CHOOSE i \in bad : \A j \in bad : i <= j) - 1)>>
             ELSE <<"Ok", [i \in 1 .. PROOF_LENGTH |->
                             IF i <= Len(chunks) THEN chunks[i]
                             ELSE ZeroHash]>>

\* Proof::try_from_slice: a slice of any other length than
\* HASH_LENGTH * PROOF_LENGTH is refused; otherwise proof starts as zeros
\* and proof[i] takes the i-th chunk, whose conversion to [u8; 32] fails
\* with InvalidHash when the chunk is not 32 bytes long, and an index past
\* the array panics.
TryFromSlice(sl) ==
    IF Len(sl) # HASH_LENGTH * PROOF_LENGTH
    THEN <<"Err", InvalidLength(HASH_LENGTH * PROOF_LENGTH, Len(sl))>>
    ELSE LET chunks == ChunksExact(sl, HASH_LENGTH)
             bad == {i \in 1 .. Len(chunks) : Len(chunks[i]) # HASH_LENGTH}
         IN  IF Len(chunks) > PROOF_LENGTH
             THEN <<"Panic">>
             ELSE IF bad # {}
             THEN <<"Err", InvalidHash(
                      (CHOOSE i \in bad : \A j \in bad : i <= j) - 1)>>
             ELSE <<"Ok", [i \in 1 .. PROOF_LENGTH |->
                             IF i <= Len(chunks) THEN chunks[i]
                             ELSE ZeroHash]>>

RECURSIVE ExtendFromHashes(_, _)
ExtendFromHashes(proof, n) ==
    IF n = 0 THEN <<>> ELSE ExtendFromHashes(proof, n - 1) \o proof[n]

\* Mutant of as_bytes: the hashes are appended last to first.
RECURSIVE AsBytes_Reversed(_)
AsBytes_Reversed(proof) ==
    IF proof = <<>> THEN <<>>
    ELSE AsBytes_Reversed(Tail(proof)) \o Head(proof)

\* Proof::as_bytes: the 24 hashes appended in order.
AsBytes(proof) == ExtendFromHashes(proof, Len(proof))

\* A slice arrives.
CodecReceive(len, seed) ==
    /\ codec_pc = "idle"
    /\ slice' = BytesOf(seed, len)
    /\ codec_pc' = "received"
    /\ UNCHANGED <<decoded, encoded>>
    /\ UNCHANGED <<clockVars, txVars, signedVars>>

\* Proof::try_from_slice(slice).
CodecTryFromSlice ==
    /\ codec_pc = "received"
    /\ decoded' = TryFromSlice(slice)
    /\ codec_pc' = "decoded"
    /\ UNCHANGED <<slice, encoded>>
    /\ UNCHANGED <<clockVars, txVars, signedVars>>

\* proof.as_bytes() of the proof that was decoded.
CodecAsBytes ==
    /\ codec_pc = "decoded"
    /\ decoded[1] = "Ok"
    /\ encoded' = AsBytes(decoded[2])
    /\ codec_pc' = "encoded"
    /\ UNCHANGED <<slice, decoded>>
    /\ UNCHANGED <<clockVars, txVars, signedVars>>

NextCodec ==
    \/ \E len \in Lengths, seed \in Seeds : CodecReceive(len, seed)
    \/ CodecTryFromSlice
    \/ CodecAsBytes

SpecCodec == Init /\ [][NextCodec]_vars

(***************************************************************************)
(* SignedTx: deserialization, hash and signer (signed_tx.rs).              *)
(***************************************************************************)
\* The batch numbers tried: 0, 1 and one of more than one hex digit.
MaxBatch == 16

Batches == {0, 1, MaxBatch}

\* Contents tried for the roots and for the proof.
RootSeeds == {1, 2}

ProofSeeds == {1, 2}

AuthMethods == {"Signature", "ProofOfConsensus"}

\* The signature field as received: absent, a well-formed signature
\* string, or a string Signature::from_str refuses.
WireSignatures == {"null", "0xsig", "malformed"}

WireProofsOfConsensus == {"null", "poc"}

Sides == {1, 2}

\* The ASCII code of a lower-case hex digit.
HexDigit(d) == IF d < 10 THEN 48 + d ELSE 87 + d

\* format!("{:x}", n): lower-case hex without leading zeros, "0" for 0.
RECURSIVE LowerHex(_)
LowerHex(n) ==
    IF n < 16 THEN <<HexDigit(n)>>
    ELSE LowerHex(n \div 16) \o <<HexDigit(n % 16)>>

\* The bytes of "0x".
Prefix0x == <<48, 120>>

\* hex::encode: two lower-case hex digits per byte, high nibble first.
HexEncode(bytes) ==
    [k \in 1 .. (2 * Len(bytes)) |->
        IF k % 2 = 1 THEN HexDigit(bytes[(k + 1) \div 2] \div 16)
        ELSE HexDigit(bytes[k \div 2] % 16)]

\* An H256 value.
RootOf(seed) == [i \in 1 .. 32 |-> (seed * 48 + i * seed) % 256]

\* keccak256, taken as injective on its input: the digest stands for the
\* bytes it was made from.
Keccak256(data) == <<"keccak256", data>>

\* Mutant of hash: the authentication method is hashed too.
Hash_WithAuthMethod(t) ==
    Keccak256(Prefix0x \o LowerHex(t.tx.last_verified_batch)
              \o Prefix0x \o LowerHex(t.tx.new_verified_batch)
              \o t.tx.zkp.new_state_root
              \o t.tx.zkp.new_local_exit_root
              \o Prefix0x \o HexEncode(AsBytes(t.tx.zkp.proof))
              \o <<IF t.auth_method = "Signature" THEN 0 ELSE 1>>)

\* SignedTx::hash: keccak256 of the concatenation of "0x" + hex of
\* last_verified_batch, "0x" + hex of new_verified_batch, the two roots and
\* "0x" + hex of the proof bytes.
Hash(t) ==
    Keccak256(Prefix0x \o LowerHex(t.tx.last_verified_batch)
              \o Prefix0x \o LowerHex(t.tx.new_verified_batch)
              \o t.tx.zkp.new_state_root
              \o t.tx.zkp.new_local_exit_root
              \o Prefix0x \o HexEncode(AsBytes(t.tx.zkp.proof)))

None == <<"None">>

Some(v) == <<"Some", v>>

\* deserialize_option_signature: an absent field is None; a string is
\* parsed by Signature::from_str, whose error fails the deserialization.
DeserializeOptionSignature(w) ==
    IF w = "null" THEN <<"Ok", None>>
    ELSE IF w = "malformed" THEN <<"Err", "signature">>
    ELSE <<"Ok", Some(w)>>

\* The derived Deserialize of SignedTx: the proof goes through
\* Proof::try_from_slice, the signature through
\* deserialize_option_signature; no relation between auth_method and the
\* two optional fields is checked.
Deserialize(w) ==
    LET proof == TryFromSlice(BytesOf(w.proof, HASH_LENGTH * PROOF_LENGTH))
        sig == DeserializeOptionSignature(w.signature)
    IN  IF proof[1] # "Ok" THEN <<"Err", "proof">>
        ELSE IF sig[1] # "Ok" THEN sig
        ELSE <<"Ok",
               [tx |-> [rollup_id |-> w.rollup_id,
                        last_verified_batch |-> w.last_verified_batch,
                        new_verified_batch |-> w.new_verified_batch,
                        zkp |-> [new_state_root |-> RootOf(w.new_state_root),
                                 new_local_exit_root |->
                                     RootOf(w.new_local_exit_root),
                                 proof |-> proof[2]]],
                auth_method |-> w.auth_method,
                signature |-> sig[2],
                proof_of_consensus |->
                    IF w.proof_of_consensus = "null" THEN None
                    ELSE Some(w.proof_of_consensus)]>>

\* Signature::recover(hash): the outcome of the recovery of this signature
\* against this digest.
Recover(sig, h) == <<"Recover", sig, h>>

\* Mutant of signer: it looks at auth_method and at the signature's
\* presence first and returns an error.
Signer_ChecksAuthMethod(t) ==
    IF t.auth_method # "Signature" \/ t.signature = None
    THEN <<"Err", "NoSignature">>
    ELSE Recover(t.signature[2], Hash(t))

\* SignedTx::signer: self.signature.unwrap() panics on None; otherwise the
\* signature is recovered against self.hash().
Signer(t) ==
    IF t.signature = None THEN <<"Panic">>
    ELSE Recover(t.signature[2], Hash(t))

\* The submissions received on the second side: every combination.
Wires ==
    [rollup_id : RollupIds,
     last_verified_batch : Batches,
     new_verified_batch : Batches,
     new_state_root : RootSeeds,
     new_local_exit_root : RootSeeds,
     proof : ProofSeeds,
     auth_method : AuthMethods,
     signature : WireSignatures,
     proof_of_consensus : WireProofsOfConsensus]

\* The submissions received on the first side: one signed submission of
\* rollup 1, which the second side is compared with.
BaseWires ==
    {w \in Wires : /\ w.rollup_id = 1
                   /\ w.last_verified_batch = 1
                   /\ w.new_verified_batch = MaxBatch
                   /\ w.new_state_root = 1
                   /\ w.new_local_exit_root = 1
                   /\ w.proof = 1
                   /\ w.auth_method = "Signature"
                   /\ w.signature = "0xsig"
                   /\ w.proof_of_consensus = "null"}

\* Two submissions are received.
SignedReceive(a, b) ==
    /\ signed_pc = "idle"
    /\ wire' = <<a, b>>
    /\ signed_pc' = "received"
    /\ UNCHANGED <<stx, digest, signer_out>>
    /\ UNCHANGED <<clockVars, txVars, codecVars>>

\* Both are deserialized.
SignedDeserialize ==
    /\ signed_pc = "received"
    /\ stx' = [k \in Sides |-> Deserialize(wire[k])]
    /\ signed_pc' = "deserialized"
    /\ UNCHANGED <<wire, digest, signer_out>>
    /\ UNCHANGED <<clockVars, txVars, codecVars>>

\* hash() of each SignedTx.
SignedHash ==
    /\ signed_pc = "deserialized"
    /\ digest' = [k \in Sides |->
                     IF stx[k][1] = "Ok" THEN Hash(stx[k][2]) ELSE NoValue]
    /\ signed_pc' = "hashed"
    /\ UNCHANGED <<wire, stx, signer_out>>
    /\ UNCHANGED <<clockVars, txVars, codecVars>>

\* signer() of each SignedTx.
SignedSigner ==
    /\ signed_pc = "hashed"
    /\ signer_out' = [k \in Sides |->
                         IF stx[k][1] = "Ok" THEN Signer(stx[k][2])
                         ELSE NoValue]
    /\ signed_pc' = "signer"
    /\ UNCHANGED <<wire, stx, digest>>
    /\ UNCHANGED <<clockVars, txVars, codecVars>>

NextSigned ==
    \/ \E a \in BaseWires, b \in Wires : SignedReceive(a, b)
    \/ SignedDeserialize
    \/ SignedHash
    \/ SignedSigner

SpecSigned == Init /\ [][NextSigned]_vars

(***************************************************************************)
(* Properties of send_tx, checked under SpecTx.                            *)
(***************************************************************************)
AllChecksOk(r) == \A f \in Checks : checks[r][f] = "ok"

SomeCheckFailed(r) == \E f \in Checks : checks[r][f] = "err"

\* C1: kernel.settle is called only once all three checks have completed
\* with Ok; when a check fails, send_tx returns an invalid-params error and
\* settle is never called for that submission.
C1_SettleOnlyAfterAllChecks ==
    \A r \in Requests :
        /\ (settle_calls[r] > 0 \/ tx_pc[r] \in {"settle", "settling"}) =>
               (check_rollup_registered(rollup_id[r]) /\ AllChecksOk(r))
        /\ SomeCheckFailed(r) =>
               /\ tx_pc[r] = "done"
               /\ result[r].kind = "InvalidParams"
               /\ settle_calls[r] = 0

\* Exactly one check failed, after the two others had succeeded.
C1_Witness ==
    \E r \in Requests, f \in Checks :
        /\ checks[r][f] = "err"
        /\ \A h \in Checks \ {f} : checks[r][h] = "ok"
        /\ result[r] = invalid_params_error(ErrorOf(f))
        /\ settle_calls[r] = 0

\* C2: for an unregistered rollup id send_tx returns the invalid-params
\* error that names the id, and neither a verification function nor settle
\* is called.
C2_UnregisteredShortCircuits ==
    \A r \in Requests :
        (tx_pc[r] # "idle" /\ rollup_id[r] \notin RegisteredRollups) =>
            /\ tx_pc[r] = "done"
            /\ result[r].kind = "InvalidParams"
            /\ result[r].data = <<"InvalidRollupId", rollup_id[r]>>
            /\ invoked[r] = {}
            /\ \A f \in Checks : checks[r][f] = "new"
            /\ settle_calls[r] = 0

\* An unregistered submission was refused while a registered one was being
\* verified.
C2_Witness ==
    \E r, q \in Requests :
        /\ tx_pc[r] = "done"
        /\ rollup_id[r] \notin RegisteredRollups
        /\ result[r].kind = "InvalidParams"
        /\ invoked[q] # {}

\* C3: when the rollup is registered, the three checks succeeded and settle
\* failed, send_tx returns an internal error, not an invalid-params error;
\* and an internal error is returned only after settle was called and
\* failed.
C3_SettleFailureIsInternal ==
    \A r \in Requests :
        /\ (tx_pc[r] = "done" /\ settle_calls[r] > 0) =>
               /\ result[r].kind \in {"Ok", "Internal"}
               /\ result[r].kind = "Ok" <=> result[r].data \in TxHashes
        /\ result[r].kind = "Internal" =>
               /\ tx_pc[r] = "done"
               /\ settle_calls[r] = 1
               /\ check_rollup_registered(rollup_id[r])
               /\ AllChecksOk(r)
               /\ result[r].data = <<"Error", "settle">>
        /\ result[r].kind = "InvalidParams" => settle_calls[r] = 0

C3_Witness ==
    \E r \in Requests :
        /\ tx_pc[r] = "done"
        /\ AllChecksOk(r)
        /\ settle_calls[r] = 1
        /\ result[r].kind = "Internal"

(***************************************************************************)
(* Properties of the clock, checked under Spec.                            *)
(***************************************************************************)
\* The epoch of the block that spawn stored (E0).
SpawnEpoch == spawn_block \div epoch_duration

\* Whole seconds from genesis to the moment of construction (time 0),
\* clamped at zero.
ConstructBlock == IF genesis >= 0 THEN 0 ELSE (-genesis) \div Res

\* Whole seconds from genesis to now, clamped at zero.
WallBlock == IF now <= genesis THEN 0 ELSE (now - genesis) \div Res

IsEvent(r) == r[1] = "EpochChange"

\* C4: the events the task sends carry the consecutive epochs E0+1, E0+2,
\* ... (E0 the epoch at spawn), one for each epoch boundary the block
\* counter has crossed, also when late ticks are delivered in a burst.
C4_ConsecutiveEpochs ==
    /\ \A i \in 1 .. Len(sent) : sent[i] = EpochChange(SpawnEpoch + i)
    /\ pc_run \in {"wait", "epoch", "send"} =>
          Len(sent) = (current_block \div epoch_duration) - SpawnEpoch
                      - (IF pc_run = "wait" THEN 0 ELSE 1)

\* Two boundaries were crossed, and their events sent, at one instant.
C4_Witness ==
    /\ epoch_duration = 1
    /\ pc_run = "wait"
    /\ burst >= 2
    /\ Len(sent) >= 2

\* C5: once the task runs, has delivered every tick that is due and is not
\* in the middle of one, the counters are those of the wall clock:
\* current_block = max(0, now - genesis) in whole seconds and current_epoch
\* its quotient by epoch_duration.  (The claim speaks of every state; these
\* are the states most favourable to it.)
C5_WallClockAccurate ==
    (pc_run = "wait" /\ next_tick > now) =>
        /\ current_block = WallBlock
        /\ current_epoch = WallBlock \div epoch_duration

\* C6, as claimed: in every state after construction, current_epoch is
\* current_block divided by epoch_duration.
C6_EpochIsBlockDivDuration ==
    pc_main # "start" => current_epoch = current_block \div epoch_duration

\* C6, amended: taking the states of the two atomics in the order the clock
\* writes them, current_epoch = current_block div epoch_duration in every
\* state except between a store to current_block and the store to
\* current_epoch that follows it; there current_epoch is one less on a
\* boundary tick, and not greater during spawn.
C6_EpochIsBlockDivDurationAtRest ==
    /\ (pc_main \notin {"start", "spawn_epoch"} /\ pc_run # "epoch") =>
           current_epoch = current_block \div epoch_duration
    /\ pc_run = "epoch" =>
           current_epoch = (current_block \div epoch_duration) - 1
    /\ pc_main = "spawn_epoch" =>
           current_epoch <= current_block \div epoch_duration

\* A boundary tick has stored the new epoch and is about to send it.
C6_Witness ==
    /\ pc_run = "send"
    /\ current_epoch > SpawnEpoch
    /\ current_epoch = current_block \div epoch_duration

\* C7, as claimed: a clock built with a genesis 30 seconds in the past and an
\* epoch duration of 2 has the initial epoch 16.
C7_InitialEpoch16 ==
    (pc_main = "created" /\ genesis = -(30 * Res) /\ epoch_duration = 2) =>
        current_epoch = 16

\* C7, amended: that clock has the initial epoch 15 (block 30), and a
\* subscription holds no backlog: until the task sends again the new
\* receiver has nothing to receive, and what it receives later are events
\* sent after it subscribed, never an epoch that elapsed before.
C7_InitialEpoch15NoBacklog ==
    (genesis = -(30 * Res) /\ epoch_duration = 2) =>
        /\ pc_main = "created" => (current_epoch = 15 /\ current_block = 30)
        /\ \A s \in Subscribers :
              /\ (subs[s].active /\ subs[s].joined = Len(sent)) =>
                     (subs[s].next = Len(buffer) /\ received[s] = <<>>)
              /\ \A i \in 1 .. Len(received[s]) :
                     IsEvent(received[s][i]) =>
                         received[s][i][2] > SpawnEpoch + subs[s].joined

\* A first subscription made after the task sent an event, with nothing to
\* receive.
C7_Witness ==
    /\ genesis = -(30 * Res)
    /\ epoch_duration = 2
    /\ subs[1].active
    /\ subs[1].joined >= 1
    /\ subs[1].joined = Len(sent)
    /\ subs[1].next = Len(buffer)

\* C8: right after construction current_block is the whole seconds from
\* genesis to the moment of construction, 0 when genesis lies in the future,
\* and current_epoch = current_block div epoch_duration; a genesis 30 seconds
\* in the past with epoch duration 5 gives epoch 6 and a block >= 30.
C8_CountersAfterConstruction ==
    pc_main = "created" =>
        /\ current_block = ConstructBlock
        /\ current_block >= 0
        /\ current_epoch = current_block \div epoch_duration
        /\ (genesis = -(30 * Res) /\ epoch_duration = 5) =>
               (current_epoch = 6 /\ current_block >= 30)

C8_Witness ==
    /\ pc_main = "created"
    /\ genesis = -(30 * Res)
    /\ epoch_duration = 5
    /\ current_epoch = 6
    /\ current_block = 30

\* C9, as claimed: whatever the interleaving of subscribe with the task, the
\* first event a subscriber receives is EpochChange(floor(B/D) + 1), B the
\* block at spawn.
C9_FirstEventIsNextEpoch ==
    \A s \in Subscribers :
        received[s] # <<>> => received[s][1] = EpochChange(SpawnEpoch + 1)

\* C9, amended: the first event a subscriber receives is the first one sent
\* after its subscribe call, EpochChange(floor(B/D) + 1 + k), k the number
\* of events already sent when it subscribed; a subscriber that fell more
\* than the channel's capacity behind gets Lagged(n) first, and if an event
\* comes next it is EpochChange(floor(B/D) + 1 + k + n).
C9_FirstEventIsFirstSentAfterSubscribe ==
    \A s \in Subscribers :
        received[s] # <<>> =>
            \/ received[s][1] = EpochChange(SpawnEpoch + 1 + subs[s].joined)
            \/ /\ received[s][1][1] = "Lagged"
               /\ received[s][1][2] >= 1
               /\ (Len(received[s]) >= 2 /\ IsEvent(received[s][2])) =>
                      received[s][2] = EpochChange(SpawnEpoch + 1 + subs[s].joined
                                                   + received[s][1][2])

\* A subscriber that subscribed after the first boundary was crossed, and
\* received the next one.
C9_Witness ==
    \E s \in Subscribers :
        /\ subs[s].joined >= 1
        /\ received[s] # <<>>
        /\ received[s][1] = EpochChange(SpawnEpoch + 1 + subs[s].joined)

\* C10: current_block and current_epoch never decrease: not by spawn's
\* recomputation, not by a tick.
C10_CountersMonotonic ==
    [][/\ current_block' >= current_block
       /\ current_epoch' >= current_epoch]_vars

\* Spawn raised the block above its value at construction, and ticks raised
\* block and epoch further.
C10_Witness ==
    /\ pc_run = "wait"
    /\ spawn_block > ConstructBlock
    /\ current_block > spawn_block
    /\ current_epoch > SpawnEpoch

\* C11: a send while no receiver exists changes nothing but the task's
\* position: nothing is stored, the counters keep their values and the task
\* goes back to waiting for its next tick; and no subscriber ever receives
\* an event that was sent before it subscribed.
C11_SendWithoutSubscriberIsNoOp ==
    [][/\ (Len(sent') = Len(sent) + 1 /\ rx_count = 0) =>
              /\ buffer' = buffer
              /\ pc_run' = "wait"
              /\ current_block' = current_block
              /\ current_epoch' = current_epoch
       /\ \A s \in Subscribers :
              \A i \in 1 .. Len(received'[s]) :
                  IsEvent(received'[s][i]) =>
                      received'[s][i][2] >
                          (spawn_block' \div epoch_duration') + subs'[s].joined
      ]_vars

\* An event was sent without receiver and never stored; a subscriber that
\* came later received a later event, and the task is waiting for a tick.
C11_Witness ==
    \E s \in Subscribers :
        /\ rx_count = 1
        /\ Len(sent) > Len(buffer)
        /\ subs[s].joined >= 1
        /\ received[s] # <<>>
        /\ IsEvent(received[s][1])
        /\ pc_run = "wait"

\* The number of channel values a recv result accounts for: one for an
\* event, n for Lagged(n).
ResultWeight(r) == IF IsEvent(r) THEN 1 ELSE r[2]

RECURSIVE Consumed(_, _)
Consumed(rs, i) ==
    IF i = 0 THEN 0 ELSE Consumed(rs, i - 1) + ResultWeight(rs[i])

HasLagged(rs) == \E i \in 1 .. Len(rs) : ~IsEvent(rs[i])

C13_SuccessIffAllStepsSucceed ==
    \A r \in Requests :
        /\ result[r].kind = "Ok" <=>
               /\ tx_pc[r] = "done"
               /\ check_rollup_registered(rollup_id[r])
               /\ AllChecksOk(r)
               /\ receipt[r] # NoReceipt
               /\ receipt[r][1] = "Ok"
        /\ result[r].kind = "Ok" =>
               /\ result[r].data = receipt[r][2]
               /\ settle_calls[r] = 1
        /\ tx_pc[r] = "done" => result[r] # NoResult
        /\ settle_calls[r] <= 1

\* One invocation has returned a receipt's hash while another, whose
\* settlement failed, has returned an error.
C13_Witness ==
    \E r, q \in Requests :
        /\ result[r].kind = "Ok"
        /\ receipt[r] = Receipt(result[r].data)
        /\ tx_pc[q] = "done"
        /\ receipt[q] = SettleError
        /\ result[q].kind # "Ok"

\* C14: an invocation all of whose collaborator calls return does return a
\* result; an invocation of a registered rollup with a call that never
\* returns, and no check that failed, never returns and has no result.
C14_ReturnsIffCollaboratorsReturn ==
    /\ (tx_pc[1] # "idle" /\ hung[1] = "none") ~>
           (tx_pc[1] = "done" /\ result[1] # NoResult)
    /\ [](/\ hung[1] # "none"
          /\ check_rollup_registered(rollup_id[1])
          /\ ~SomeCheckFailed(1)
          => /\ tx_pc[1] # "done"
             /\ result[1] = NoResult)

\* The join is blocked: two checks have succeeded and the third is in
\* flight and never returns.
C14_Witness ==
    /\ hung[1] \in Checks
    /\ tx_pc[1] = "join"
    /\ checks[1][hung[1]] = "pending"
    /\ \A f \in Checks \ {hung[1]} : checks[1][f] = "ok"

\* C20: while the join is waiting, each of the three futures can be polled,
\* in any order; as soon as one has completed with an error the invocation
\* has returned the invalid-params error of that very check, the futures
\* still in flight are dropped, settle is not called, each success counter
\* counts exactly the checks that completed with Ok, and nothing of the
\* invocation's checks or result changes afterwards.
C20_FirstFailureShortCircuits ==
    /\ [](\A r \in Requests :
            /\ \A f \in Checks :
                  (tx_pc[r] = "join" /\ checks[r][f] \in {"new", "pending"})
                      => ENABLED PollPending(r, f)
            /\ SomeCheckFailed(r) =>
                  /\ tx_pc[r] = "done"
                  /\ settle_calls[r] = 0
                  /\ \E f \in Checks :
                        /\ checks[r][f] = "err"
                        /\ result[r] = invalid_params_error(ErrorOf(f))
                        /\ \A h \in Checks \ {f} :
                              checks[r][h] \in {"ok", "dropped"}
            /\ \A f \in Checks :
                  counters[CounterOf(f)] =
                      Cardinality({q \in Requests : checks[q][f] = "ok"}))
    /\ [][\A r \in Requests :
            SomeCheckFailed(r) =>
                /\ checks'[r] = checks[r]
                /\ result'[r] = result[r]
                /\ invoked'[r] = invoked[r]]_vars

\* A check failed while one check had succeeded and the third was in
\* flight: the invocation has returned and the third was dropped.
C20_Witness ==
    \E r \in Requests :
        \E f, g, h \in Checks :
            /\ checks[r][f] = "err"
            /\ checks[r][g] = "ok"
            /\ checks[r][h] = "dropped"
            /\ h \in invoked[r]
            /\ tx_pc[r] = "done"
            /\ result[r] = invalid_params_error(ErrorOf(f))

\* C17: try_from_slice of a slice whose length is not 768 is the error
\* InvalidLength with expected 768 and the slice's length, and carries no
\* proof; of a slice of 768 bytes it is a proof of 24 hashes of 32 bytes,
\* never InvalidHash.
C17_LengthDecides ==
    codec_pc \in {"decoded", "encoded"} =>
        IF Len(slice) # 768
        THEN decoded = <<"Err", InvalidLength(768, Len(slice))>>
        ELSE /\ Len(decoded) = 2
             /\ decoded[1] = "Ok"
             /\ Len(decoded[2]) = 24
             /\ \A i \in 1 .. 24 : Len(decoded[2][i]) = 32

\* A slice one byte too long has been refused.
C17_Witness ==
    /\ codec_pc = "decoded"
    /\ Len(slice) = 769
    /\ decoded = <<"Err", InvalidLength(768, 769)>>

\* C18: every slice of 768 bytes is decoded, and as_bytes of the decoded
\* proof is the slice again, byte for byte.
C18_RoundTrip ==
    /\ (codec_pc = "decoded" /\ Len(slice) = 768) =>
           (decoded[1] = "Ok" /\ ENABLED CodecAsBytes)
    /\ codec_pc = "encoded" =>
           (Len(slice) = 768 /\ encoded = slice)

\* A slice whose first two chunks differ has made the round trip.
C18_Witness ==
    /\ codec_pc = "encoded"
    /\ encoded = slice
    /\ SubSeq(slice, 1, 32) # SubSeq(slice, 33, 64)

BothDeserialized ==
    /\ signed_pc \in {"deserialized", "hashed", "signer"}
    /\ \A k \in Sides : stx[k][1] = "Ok"

BothHashed ==
    /\ signed_pc \in {"hashed", "signer"}
    /\ \A k \in Sides : stx[k][1] = "Ok"

\* C15: two submissions whose manifests differ in any field (rollup_id
\* included) have different hashes.
C15_HashIdentifiesManifest ==
    (BothHashed /\ stx[1][2].tx # stx[2][2].tx) => digest[1] # digest[2]

\* What does hold of the hash: two manifests that differ in any field other
\* than rollup_id have different hashes, and two that differ in nothing but
\* rollup_id have the same.
HashIdentifiesAllButRollupId ==
    BothHashed =>
        (digest[1] = digest[2] <=>
             [stx[1][2].tx EXCEPT !.rollup_id = 0] =
                 [stx[2][2].tx EXCEPT !.rollup_id = 0])

\* C16: two submissions with the same manifest have the same hash, whatever
\* their auth_method, signature and proof_of_consensus.
C16_HashDependsOnlyOnManifest ==
    (BothHashed /\ stx[1][2].tx = stx[2][2].tx) => digest[1] = digest[2]

\* Two submissions with the same manifest that differ in all three
\* authentication fields have been hashed.
C16_Witness ==
    /\ BothHashed
    /\ stx[1][2].tx = stx[2][2].tx
    /\ stx[1][2].auth_method # stx[2][2].auth_method
    /\ stx[1][2].signature # stx[2][2].signature
    /\ stx[1][2].proof_of_consensus # stx[2][2].proof_of_consensus
    /\ digest[1] = digest[2]

\* C19: the deserialization accepts every submission whose signature field
\* is absent or well-formed, whatever auth_method is; signer() of a
\* submission without signature panics and yields no address, whatever
\* auth_method is; signer() of one with a signature is the recovery of that
\* signature against the submission's hash(), whatever auth_method is.
C19_SignerNeedsSignature ==
    \A k \in Sides :
        /\ signed_pc \in {"deserialized", "hashed", "signer"} =>
               (stx[k][1] = "Ok" <=> wire[k].signature # "malformed")
        /\ (signed_pc = "signer" /\ stx[k][1] = "Ok") =>
               IF wire[k].signature = "null"
               THEN /\ stx[k][2].signature = None
                    /\ signer_out[k] = <<"Panic">>
               ELSE /\ stx[k][2].signature = Some(wire[k].signature)
                    /\ signer_out[k] =
                           Recover(wire[k].signature, digest[k])

\* signer() has panicked on a submission with auth_method Signature and no
\* signature, which was deserialized, and has attempted the recovery on a
\* signed submission.
C19_Witness ==
    /\ signed_pc = "signer"
    /\ stx[2][1] = "Ok"
    /\ stx[2][2].auth_method = "Signature"
    /\ stx[2][2].signature = None
    /\ signer_out[2] = <<"Panic">>
    /\ signer_out[1] = Recover("0xsig", digest[1])

TaskRuns == pc_run \in {"wait", "epoch", "send"}

\* C21: a tick adds exactly 1 to current_block and nothing else changes the
\* block once the task runs; the tick goes on to recompute the epoch and
\* to send exactly when the new block is a multiple of epoch_duration, and
\* otherwise is over with the epoch unchanged and nothing sent; the
\* recomputation stores block / epoch_duration and is the only change of
\* the epoch; the one event of the tick is EpochChange(current_epoch), sent
\* while current_block = current_epoch * epoch_duration; and the epoch
\* counter is never below an epoch some subscriber has received.
C21_TickFrameEffects ==
    [][/\ (pc_run = "wait" /\ next_tick' # next_tick) =>
              /\ current_block' = current_block + 1
              /\ current_epoch' = current_epoch
              /\ sent' = sent
              /\ buffer' = buffer
              /\ IF current_block' % epoch_duration = 0
                 THEN pc_run' = "epoch"
                 ELSE pc_run' = "wait"
       /\ (TaskRuns /\ current_block' # current_block) =>
              (pc_run = "wait" /\ next_tick' # next_tick)
       /\ (pc_run = "epoch" /\ pc_run' # pc_run) =>
              /\ current_block % epoch_duration = 0
              /\ current_epoch' = current_block \div epoch_duration
              /\ current_block' = current_block
              /\ sent' = sent
              /\ pc_run' = "send"
       /\ (TaskRuns /\ current_epoch' # current_epoch) => pc_run = "epoch"
       /\ (pc_run = "send" /\ pc_run' # pc_run) =>
              /\ sent' = Append(sent, EpochChange(current_epoch))
              /\ current_block = current_epoch * epoch_duration
              /\ current_block' = current_block
              /\ current_epoch' = current_epoch
              /\ pc_run' = "wait"
       /\ sent' # sent => pc_run = "send"
       /\ \A s \in Subscribers :
              \A i \in 1 .. Len(received'[s]) :
                  IsEvent(received'[s][i]) =>
                      current_epoch' >= received'[s][i][2]
      ]_vars

\* With epochs of more than one block, a subscriber has received the event
\* of a boundary tick and a later tick, not on a boundary, has left the
\* epoch as it was and sent nothing.
C21_Witness ==
    \E s \in Subscribers :
        /\ epoch_duration > 1
        /\ pc_run = "wait"
        /\ received[s] # <<>>
        /\ received[s][Len(received[s])] = EpochChange(current_epoch)
        /\ sent[Len(sent)] = EpochChange(current_epoch)
        /\ current_block > current_epoch * epoch_duration

=============================================================================
